---- MODULE Spec2Model ----
(***************************************************************************)
(* Model of the catch-clause instrumentation tool (cwener/cli).            *)
(*                                                                         *)
(* The repository holds three copies of processFile/coronainit:            *)
(*   "cli"    src/src/index.js             (commander entry, retainLines   *)
(*                                          false, no fallback binding)    *)
(*   "lib"    src/unnamed/part_000:1-228   (exported coronainit, attaches  *)
(*                                          the fallback binding `error`)  *)
(*   "script" src/unnamed/part_000:230-393 (self-running, retainLines true)*)
(* The variable impl says which copy is running.                           *)
(*                                                                         *)
(* A file is a record: its top-level statements (program.body) and a table *)
(* of its catch clauses.  A TryStatement names its clause by its index in  *)
(* the table, so that a clause nested in another clause's body, in a       *)
(* guarded block, a function or a loop is one more entry of the table.     *)
(* Text on disk carries a layout and no node locations; a parsed tree      *)
(* carries a location on every statement and binding node, and nodes built *)
(* by the transform carry none.                                            *)
(***************************************************************************)
EXTENDS Integers, Sequences, FiniteSets, TLC

\* ---------------------------------------------------------------- bounds
MaxTop  == 2    \* top-level statements in front of the try statements
MaxRuns == 2    \* invocations of the tool over the same tree

\* ------------------------------------------------------- program constants
CoronaModule == "@music/corona-falcon-sdk"
CoronaName   == "corona"
LogMethods   == {"info", "warn", "error"}
FallbackName == "error"
WarnTag      == "SomethingWrong"

Impls == {"cli", "lib", "script"}

\* --------------------------------------------------------------- syntax
Identifier(n)    == [type |-> "Identifier", name |-> n]
StringLiteral(v) == [type |-> "StringLiteral", value |-> v]
NoParam          == [type |-> "null"]
ObjectPattern    == [type |-> "ObjectPattern", properties |-> <<Identifier("message")>>]

MemberExpression(o, p) == [type |-> "MemberExpression", object |-> o, property |-> p]
CallExpression(c, a)   == [type |-> "CallExpression", callee |-> c, arguments |-> a]
ExpressionStatement(e) == [type |-> "ExpressionStatement", expression |-> e]
LogicalExpression(op, l, r) ==
    [type |-> "LogicalExpression", operator |-> op, left |-> l, right |-> r]
ObjectExpression(ps)   == [type |-> "ObjectExpression", properties |-> ps]
ObjectProperty(k, v)   == [type |-> "ObjectProperty", key |-> k, value |-> v]
ImportDeclaration(specs, src) ==
    [type |-> "ImportDeclaration", specifiers |-> specs, source |-> src]
ImportDefaultSpecifier(l) == [type |-> "ImportDefaultSpecifier", local |-> l]

\* a node as the parser returns it, and as the generator prints it
Located(n)   == n @@ ("loc" :> TRUE)
Unlocated(n) == [f \in (DOMAIN n) \ {"loc"} |-> n[f]]

StmtLists == {"block", "consequent", "body"}

RECURSIVE LocatedStmt(_)
LocatedStmt(s) ==
    [f \in (DOMAIN s) \cup {"loc"} |->
        IF f = "loc" THEN TRUE
        ELSE IF f \in StmtLists THEN [i \in DOMAIN s[f] |-> LocatedStmt(s[f][i])]
        ELSE s[f]]

RECURSIVE UnlocatedStmt(_)
UnlocatedStmt(s) ==
    [f \in (DOMAIN s) \ {"loc"} |->
        IF f \in StmtLists THEN [i \in DOMAIN s[f] |-> UnlocatedStmt(s[f][i])]
        ELSE s[f]]

LocatedParam(p)   == IF p.type = "null" THEN p ELSE Located(p)
UnlocatedParam(p) == IF p.type = "null" THEN p ELSE Unlocated(p)

\* parse(code, {sourceType: 'module', plugins}) of a text that is valid source
parse(code) ==
    [program |-> [body |-> [i \in DOMAIN code.body |-> LocatedStmt(code.body[i])]],
     clauses |-> [h \in DOMAIN code.clauses |->
                    [type  |-> "CatchClause",
                     param |-> LocatedParam(code.clauses[h].param),
                     body  |-> [i \in DOMAIN code.clauses[h].body |->
                                   LocatedStmt(code.clauses[h].body[i])]]]]

\* generator(ast, {retainLines}).code
generator(tree, retainLines) ==
    [ok      |-> TRUE,
     layout  |-> IF retainLines THEN "retainLines" ELSE "compact",
     body    |-> [i \in DOMAIN tree.program.body |-> UnlocatedStmt(tree.program.body[i])],
     clauses |-> [h \in DOMAIN tree.clauses |->
                    [param |-> UnlocatedParam(tree.clauses[h].param),
                     body  |-> [i \in DOMAIN tree.clauses[h].body |->
                                   UnlocatedStmt(tree.clauses[h].body[i])]]]]

RetainLines(i) == i = "script"

\* traverse(ast, {CatchClause}): the clauses in the order the visitor meets
\* them, depth first, in source order (a guarded block before its handler)
RECURSIVE Traversal(_, _)
Traversal(stmts, clauses) ==
    IF stmts = <<>> THEN <<>>
    ELSE LET s == Head(stmts)
             inner ==
               CASE s.type = "TryStatement" ->
                      Traversal(s.block, clauses)
                      \o (IF s.handler = 0 THEN <<>>
                          ELSE <<s.handler>> \o Traversal(clauses[s.handler].body, clauses))
                 [] s.type \in {"FunctionDeclaration", "WhileStatement"} ->
                      Traversal(s.body, clauses)
                 [] s.type = "IfStatement" -> Traversal(s.consequent, clauses)
                 [] OTHER -> <<>>
         IN inner \o Traversal(Tail(stmts), clauses)

\* ------------------------------------------------- processFile, piece by piece
Max(S) == CHOOSE x \in S : \A y \in S : y <= x

\* the forEach over ast.program.body: index (from 0) of the last import, or -1
LastImportIndex(body) ==
    Max({-1} \cup {i - 1 : i \in {j \in DOMAIN body : body[j].type = "ImportDeclaration"}})

\* seeded fault: an import counts only when it binds the name corona
HasCoronaImportByName(body) ==
    \E i \in DOMAIN body :
        /\ body[i].type = "ImportDeclaration"
        /\ body[i].source.value = CoronaModule
        /\ \E k \in DOMAIN body[i].specifiers : body[i].specifiers[k].local.name = CoronaName

HasCoronaImport(body) ==
    \E i \in DOMAIN body :
        /\ body[i].type = "ImportDeclaration"
        /\ body[i].source.value = CoronaModule

\* lib only: a clause without a binding gets the binding `error`
FallbackParam(i, param) ==
    IF i = "lib" /\ param.type = "null" THEN Identifier(FallbackName) ELSE param

\* the visitor's early return
SkipsClause(param) == param.type # "Identifier"

\* seeded fault: warn is missing from the recognised methods
IsCoronaLogNoWarn(statement) ==
    /\ statement.type = "ExpressionStatement"
    /\ statement.expression.type = "CallExpression"
    /\ LET callee == statement.expression.callee
       IN /\ callee.type = "MemberExpression"
          /\ callee.object.type = "Identifier"
          /\ callee.object.name = CoronaName
          /\ callee.property.name \in {"info", "error"}

IsCoronaLog(statement) ==
    /\ statement.type = "ExpressionStatement"
    /\ statement.expression.type = "CallExpression"
    /\ LET callee == statement.expression.callee
       IN /\ callee.type = "MemberExpression"
          /\ callee.object.type = "Identifier"
          /\ callee.object.name = CoronaName
          /\ callee.property.name \in LogMethods

hasCoronaLog(catchBody) == \E k \in DOMAIN catchBody : IsCoronaLog(catchBody[k])

warnCall(errorName) ==
    LET logicalOr  == LogicalExpression("||", Identifier(errorName), ObjectExpression(<<>>))
        memberExpr == MemberExpression(logicalOr, Identifier("stack"))
        finalExpr  == LogicalExpression("||", memberExpr, Identifier(errorName))
    IN CallExpression(
         MemberExpression(Identifier(CoronaName), Identifier("warn")),
         << StringLiteral(WarnTag),
            ObjectExpression(<<ObjectProperty(Identifier("error"), finalExpr)>>),
            StringLiteral("") >>)

\* seeded fault: the call is appended (pushContainer)
pushContainer(body, node) == body \o <<node>>

unshiftContainer(body, node) == <<node>> \o body

importStatement ==
    ImportDeclaration(<<ImportDefaultSpecifier(Identifier(CoronaName))>>,
                      StringLiteral(CoronaModule))

\* Array.prototype.splice(start, 0, item), start counted from 0
splice(body, start, item) ==
    SubSeq(body, 1, start) \o <<item>> \o SubSeq(body, start + 1, Len(body))

unshift(body, item) == <<item>> \o body

\* seeded fault: the import always goes to the top of the file
InsertImportAtTop(body, last) == unshift(body, importStatement)

InsertImport(body, last) ==
    IF last # -1 THEN splice(body, last + 1, importStatement)
    ELSE unshift(body, importStatement)

\* ------------------------------------------------------------ input files
MethodCall(o, m) ==
    ExpressionStatement(CallExpression(MemberExpression(Identifier(o), Identifier(m)), <<>>))

CoronaInfo   == MethodCall("corona", "info")
CoronaWarn   == MethodCall("corona", "warn")
CoronaError  == MethodCall("corona", "error")
CoronaDebug  == MethodCall("corona", "debug")           \* corona.debug()
ConsoleError == MethodCall("console", "error")          \* console.error()
AwaitWarn    ==                                          \* await corona.warn()
    ExpressionStatement([type |-> "AwaitExpression", argument |-> CoronaWarn.expression])
BareWarn     ==                                          \* warn()
    ExpressionStatement(CallExpression(Identifier("warn"), <<>>))
ThisWarn     ==                                          \* this.corona.warn()
    ExpressionStatement(CallExpression(
        MemberExpression(MemberExpression([type |-> "ThisExpression"], Identifier("corona")),
                         Identifier("warn")), <<>>))
IfWarn       == [type |-> "IfStatement", consequent |-> <<CoronaWarn>>]
Throw        == [type |-> "ThrowStatement"]
Try(block, h)   == [type |-> "TryStatement", block |-> block, handler |-> h]
Function(body)  == [type |-> "FunctionDeclaration", body |-> body]
While(body)     == [type |-> "WhileStatement", body |-> body]
VarDecl         == [type |-> "VariableDeclaration"]
Import(src, n)  == ImportDeclaration(<<ImportDefaultSpecifier(Identifier(n))>>, StringLiteral(src))

Clause(param, body) == [param |-> param, body |-> body]

PlainBodies  == { <<>>, <<ConsoleError>>, <<IfWarn>>,
                  <<CoronaDebug, AwaitWarn, BareWarn, ThisWarn>> }
LoggedBodies == { <<CoronaWarn>>, <<ConsoleError, CoronaError>>, <<CoronaInfo, Throw>> }

\* files with one try statement at top level
SingleClauses ==
       { Clause(Identifier("e"), b) : b \in PlainBodies \cup LoggedBodies }
  \cup { Clause(NoParam, b) : b \in { <<>>, <<ConsoleError>>, <<CoronaInfo, Throw>> } }
  \cup { Clause(ObjectPattern, b) : b \in { <<ConsoleError>>, <<CoronaWarn>> } }

Forest(stmts, clauses) == [stmts |-> stmts, clauses |-> clauses]

Forests ==
       { Forest(<<Try(<<>>, 1)>>, <<c>>) : c \in SingleClauses }
  \cup { \* a clause nested in a clause's body
         Forest(<<Try(<<>>, 1)>>,
                << Clause(Identifier("e"), <<Try(<<>>, 2)>>),
                   Clause(Identifier("err"), <<>>) >>),
         Forest(<<Try(<<>>, 1)>>,
                << Clause(ObjectPattern, <<Try(<<>>, 2)>>),
                   Clause(Identifier("e"), <<ConsoleError>>) >>),
         Forest(<<Try(<<>>, 1)>>,
                << Clause(Identifier("e"), <<CoronaWarn, Try(<<>>, 2)>>),
                   Clause(NoParam, <<CoronaInfo>>) >>),
         Forest(<<Try(<<>>, 1)>>,
                << Clause(NoParam, <<Try(<<>>, 2)>>),
                   Clause(NoParam, <<>>) >>),
         \* a clause in the guarded block of a try inside a function
         Forest(<<Function(<<Try(<<Try(<<>>, 2)>>, 1)>>)>>,
                << Clause(Identifier("e"), <<ConsoleError>>),
                   Clause(Identifier("err"), <<>>) >>),
         \* a clause inside a loop, after a try/finally without a clause
         Forest(<<Try(<<>>, 0), While(<<Try(<<>>, 1)>>)>>,
                << Clause(Identifier("e"), <<>>) >>),
         \* sibling try statements
         Forest(<<Try(<<>>, 1), Try(<<>>, 2), Try(<<>>, 3)>>,
                << Clause(Identifier("e"), <<>>),
                   Clause(NoParam, <<ConsoleError>>),
                   Clause(Identifier("err"), <<IfWarn>>) >>),
         Forest(<<Try(<<>>, 1), Try(<<>>, 2)>>,
                << Clause(NoParam, <<CoronaInfo>>),
                   Clause(Identifier("e"), <<>>) >>),
         Forest(<<Try(<<>>, 1), Try(<<>>, 2)>>,
                << Clause(ObjectPattern, <<ConsoleError>>),
                   Clause(Identifier("e"), <<CoronaWarn>>) >>),
         \* an import after the try statement
         Forest(<<Try(<<>>, 1), Import("lodash", "_"), VarDecl>>,
                << Clause(Identifier("e"), <<>>) >>),
         \* no try statement at all
         Forest(<<VarDecl>>, <<>>) }

TopStatements ==
    { Import("react", "React"), Import(CoronaModule, CoronaName),
      Import(CoronaModule, "sdk"), VarDecl }

RECURSIVE SeqsUpTo(_, _)
SeqsUpTo(S, n) ==
    IF n = 0 THEN { <<>> }
    ELSE LET shorter == SeqsUpTo(S, n - 1)
         IN shorter \cup { Append(q, x) : q \in { r \in shorter : Len(r) = n - 1 }, x \in S }

SourceFile(top, forest) ==
    [ok |-> TRUE, layout |-> "source", body |-> top \o forest.stmts, clauses |-> forest.clauses]

SourceFiles == { SourceFile(top, f) : top \in SeqsUpTo(TopStatements, MaxTop), f \in Forests }

\* a text babel cannot parse, and a plain file with one clause to instrument
BrokenFile == [ok |-> FALSE, layout |-> "source", body |-> <<>>, clauses |-> <<>>]
PlainFile  == SourceFile(<<>>, Forest(<<Try(<<>>, 1)>>, <<Clause(Identifier("e"), <<>>)>>))

\* glob.sync('src/**/*.{js,jsx,ts,tsx}'): the files of one tree
Trees == { before \o <<f>> : before \in { <<>>, <<BrokenFile>>, <<PlainFile>> }, f \in SourceFiles }

\* ------------------------------------------------------------------ state
VARIABLES
    impl,             \* which copy of the program runs
    fs,               \* the files of the tree, as text on disk, in glob order
    run,              \* how many times the tool has been started
    pc,               \* "idle" | "traverse" | "import" | "save" | "done"
    index,            \* position of files.forEach(processFile), from 1
    ast,              \* processFile: the parsed tree
    modified,         \* processFile: let modified
    hasCoronaImport,  \* processFile: let hasCoronaImport
    lastImportIndex,  \* processFile: let lastImportIndex
    queue,            \* clauses the traversal has still to visit
    log,              \* console lines: Updated / Error processing file
    writes,           \* the fs.writeFileSync calls, by file
    before,           \* history: fs when this run started
    returned          \* history: per file, the flag when processFile returned

vars == << impl, fs, run, pc, index, ast, modified, hasCoronaImport,
           lastImportIndex, queue, log, writes, before, returned >>

locals == << ast, modified, hasCoronaImport, lastImportIndex, queue >>

NoAst == [program |-> [body |-> <<>>], clauses |-> <<>>]

Init ==
    /\ impl \in Impls
    /\ fs \in Trees
    /\ run = 1
    /\ pc = "idle"
    /\ index = 1
    /\ ast = NoAst
    /\ modified = FALSE
    /\ hasCoronaImport = FALSE
    /\ lastImportIndex = -1
    /\ queue = <<>>
    /\ log = <<>>
    /\ writes = <<>>
    /\ before = fs
    /\ returned = <<>>

\* processFile, lines 17-35: read, parse, scan the imports, start the traversal
ReadAndParse ==
    /\ pc = "idle"
    /\ index <= Len(fs)
    /\ fs[index].ok
    /\ LET tree == parse(fs[index])
       IN /\ ast' = tree
          /\ lastImportIndex' = LastImportIndex(tree.program.body)
          /\ hasCoronaImport' = HasCoronaImport(tree.program.body)
          /\ queue' = Traversal(tree.program.body, tree.clauses)
    /\ modified' = FALSE
    /\ pc' = "traverse"
    /\ UNCHANGED << impl, fs, run, index, log, writes, before, returned >>

\* seeded fault: the exception leaves processFile and ends the forEach
ParseErrorAborts ==
    /\ pc = "idle"
    /\ index <= Len(fs)
    /\ ~fs[index].ok
    /\ log' = Append(log, [line |-> "exception", file |-> index])
    /\ index' = Len(fs) + 1
    /\ UNCHANGED << impl, fs, run, pc, locals, writes, before, returned >>

\* parse throws: the catch of processFile logs and returns (lines 114-116)
ParseError ==
    /\ pc = "idle"
    /\ index <= Len(fs)
    /\ ~fs[index].ok
    /\ log' = Append(log, [line |-> "Error processing file", file |-> index])
    /\ returned' = Append(returned, [file |-> index, modified |-> FALSE, threw |-> TRUE])
    /\ index' = index + 1
    /\ UNCHANGED << impl, fs, run, pc, locals, writes, before >>

\* seeded fault: modified = true sits outside the if (!hasCoronaLog) block
CatchClauseMarksAlways ==
    /\ pc = "traverse"
    /\ queue # <<>>
    /\ LET h     == Head(queue)
           param == FallbackParam(impl, ast.clauses[h].param)
           node  == [ast.clauses[h] EXCEPT !.param = param]
       IN IF SkipsClause(param) \/ hasCoronaLog(node.body)
          THEN ast' = [ast EXCEPT !.clauses[h] = node]
          ELSE ast' = [ast EXCEPT !.clauses[h] =
                         [node EXCEPT !.body = unshiftContainer(
                             node.body, ExpressionStatement(warnCall(param.name)))]]
    /\ modified' = TRUE
    /\ queue' = Tail(queue)
    /\ UNCHANGED << impl, fs, run, pc, index, hasCoronaImport, lastImportIndex,
                    log, writes, before, returned >>

\* the CatchClause visitor, for the next clause of the traversal
CatchClause ==
    /\ pc = "traverse"
    /\ queue # <<>>
    /\ LET h     == Head(queue)
           param == FallbackParam(impl, ast.clauses[h].param)
           node  == [ast.clauses[h] EXCEPT !.param = param]
       IN IF SkipsClause(param) \/ hasCoronaLog(node.body)
          THEN /\ ast' = [ast EXCEPT !.clauses[h] = node]
               /\ UNCHANGED modified
          ELSE /\ ast' = [ast EXCEPT !.clauses[h] =
                            [node EXCEPT !.body = unshiftContainer(
                                node.body, ExpressionStatement(warnCall(param.name)))]]
               /\ modified' = TRUE
    /\ queue' = Tail(queue)
    /\ UNCHANGED << impl, fs, run, pc, index, hasCoronaImport, lastImportIndex,
                    log, writes, before, returned >>

\* the traversal is over
TraverseDone ==
    /\ pc = "traverse"
    /\ queue = <<>>
    /\ pc' = "import"
    /\ UNCHANGED << impl, fs, run, index, locals, log, writes, before, returned >>

\* lines 93-106
AddImport ==
    /\ pc = "import"
    /\ ast' = IF modified /\ ~hasCoronaImport
              THEN [ast EXCEPT !.program.body = InsertImport(@, lastImportIndex)]
              ELSE ast
    /\ pc' = "save"
    /\ UNCHANGED << impl, fs, run, index, modified, hasCoronaImport, lastImportIndex,
                    queue, log, writes, before, returned >>

\* seeded fault: the file is written whether or not it was modified
SaveAlways ==
    /\ pc = "save"
    /\ fs' = [fs EXCEPT ![index] = generator(ast, RetainLines(impl))]
    /\ writes' = Append(writes, index)
    /\ log' = Append(log, [line |-> "Updated", file |-> index])
    /\ returned' = Append(returned, [file |-> index, modified |-> modified, threw |-> FALSE])
    /\ index' = index + 1
    /\ pc' = "idle"
    /\ ast' = NoAst
    /\ modified' = FALSE
    /\ hasCoronaImport' = FALSE
    /\ lastImportIndex' = -1
    /\ queue' = <<>>
    /\ UNCHANGED << impl, run, before >>

\* lines 109-113, and the return to forEach
Save ==
    /\ pc = "save"
    /\ IF modified
       THEN /\ fs' = [fs EXCEPT ![index] = generator(ast, RetainLines(impl))]
            /\ writes' = Append(writes, index)
            /\ log' = Append(log, [line |-> "Updated", file |-> index])
       ELSE UNCHANGED << fs, writes, log >>
    /\ returned' = Append(returned, [file |-> index, modified |-> modified, threw |-> FALSE])
    /\ index' = index + 1
    /\ pc' = "idle"
    /\ ast' = NoAst
    /\ modified' = FALSE
    /\ hasCoronaImport' = FALSE
    /\ lastImportIndex' = -1
    /\ queue' = <<>>
    /\ UNCHANGED << impl, run, before >>

\* coronainit after the forEach: nothing more touches the files
Finish ==
    /\ pc = "idle"
    /\ index > Len(fs)
    /\ pc' = "done"
    /\ UNCHANGED << impl, fs, run, index, locals, log, writes, before, returned >>

\* the tool is started again over the tree it left
RunAgain ==
    /\ pc = "done"
    /\ run < MaxRuns
    /\ run' = run + 1
    /\ before' = fs
    /\ index' = 1
    /\ pc' = "idle"
    /\ log' = <<>>
    /\ writes' = <<>>
    /\ returned' = <<>>
    /\ UNCHANGED << impl, fs, locals >>

Next ==
    \/ ReadAndParse
    \/ ParseError
    \/ CatchClause
    \/ TraverseDone
    \/ AddImport
    \/ Save
    \/ Finish
    \/ RunAgain

Spec == Init /\ [][Next]_vars

TypeOK ==
    /\ impl \in Impls
    /\ pc \in {"idle", "traverse", "import", "save", "done"}
    /\ run \in 1..MaxRuns
    /\ index \in 1..(Len(fs) + 1)
    /\ modified \in BOOLEAN
    /\ lastImportIndex \in -1..(Len(ast.program.body) - 1)

\* ============================================================ properties
\* Vocabulary of the specification, stated on the text of the files: before
\* is the tree as this run found it, fs the tree as it is now.

Processed(i) == i \in DOMAIN fs /\ i < index
Parseable(i) == before[i].ok

\* Diagnostic Call Marker of one statement: a bare expression statement whose
\* expression is a call corona.<info|warn|error>(...)
DiagnosticCall(s) ==
    /\ s.type = "ExpressionStatement"
    /\ s.expression.type = "CallExpression"
    /\ s.expression.callee.type = "MemberExpression"
    /\ s.expression.callee.object = [type |-> "Identifier", name |-> "corona"]
    /\ s.expression.callee.property \in
         { [type |-> "Identifier", name |-> m] : m \in {"info", "warn", "error"} }

HasDiagnostic(body) == \E k \in DOMAIN body : DiagnosticCall(body[k])

\* corona.warn("SomethingWrong", { error: (e || {}).stack || e }, "");
ExpectedCall(e) ==
    [type |-> "ExpressionStatement",
     expression |->
       [type |-> "CallExpression",
        callee |-> [type |-> "MemberExpression",
                    object |-> [type |-> "Identifier", name |-> "corona"],
                    property |-> [type |-> "Identifier", name |-> "warn"]],
        arguments |->
          << [type |-> "StringLiteral", value |-> "SomethingWrong"],
             [type |-> "ObjectExpression",
              properties |->
                << [type |-> "ObjectProperty",
                    key |-> [type |-> "Identifier", name |-> "error"],
                    value |->
                      [type |-> "LogicalExpression", operator |-> "||",
                       left |-> [type |-> "MemberExpression",
                                 object |-> [type |-> "LogicalExpression", operator |-> "||",
                                             left |-> [type |-> "Identifier", name |-> e],
                                             right |-> [type |-> "ObjectExpression",
                                                        properties |-> <<>>]],
                                 property |-> [type |-> "Identifier", name |-> "stack"]],
                       right |-> [type |-> "Identifier", name |-> e]]] >>],
             [type |-> "StringLiteral", value |-> ""] >>]]

\* import corona from '@music/corona-falcon-sdk';
ExpectedImport ==
    [type |-> "ImportDeclaration",
     specifiers |-> << [type |-> "ImportDefaultSpecifier",
                        local |-> [type |-> "Identifier", name |-> "corona"]] >>,
     source |-> [type |-> "StringLiteral", value |-> "@music/corona-falcon-sdk"]]

ImportsOf(body)       == { k \in DOMAIN body : body[k].type = "ImportDeclaration" }
CoronaImportsOf(body) == { k \in ImportsOf(body) : body[k].source.value = "@music/corona-falcon-sdk" }
LastImportPos(body)   == IF ImportsOf(body) = {} THEN 0 ELSE Max(ImportsOf(body))
Without(body, p)      == SubSeq(body, 1, p - 1) \o SubSeq(body, p + 1, Len(body))

\* clause h of file i has one more statement than it had
Gained(i, h)    == Len(fs[i].clauses[h].body) > Len(before[i].clauses[h].body)
GainedIn(i)     == { h \in DOMAIN before[i].clauses : Gained(i, h) }
Instrumented(i) == GainedIn(i) # {}
ImportsAdded(i) == Cardinality(CoronaImportsOf(fs[i].body))
                   - Cardinality(CoronaImportsOf(before[i].body))
Written(i)      == \E k \in DOMAIN writes : writes[k] = i
Updated(i)      == \E k \in DOMAIN log : log[k] = [line |-> "Updated", file |-> i]
InProcessFile   == pc \in {"traverse", "import", "save"}

\* C1: a second run over the tree the first run left changes nothing: no
\* clause gains a call, no binding changes in the file, no import is added,
\* nothing is written and modified stays false.
Idempotence ==
    run >= 2 =>
      /\ fs = before
      /\ writes = <<>>
      /\ ~modified
      /\ \A k \in DOMAIN returned : ~returned[k].modified
      /\ \A k \in DOMAIN log : log[k].line # "Updated"
      /\ InProcessFile =>
           /\ ast.program.body = parse(fs[index]).program.body
           /\ \A h \in DOMAIN ast.clauses :
                ast.clauses[h].body = parse(fs[index]).clauses[h].body

\* a second run has gone over a file the first run rewrote
IdempotenceWitness ==
    /\ run = 2
    /\ pc = "done"
    /\ \E i \in DOMAIN fs :
         /\ fs[i].layout # "source"
         /\ Cardinality(CoronaImportsOf(fs[i].body)) = 1
         /\ \E h \in DOMAIN fs[i].clauses : HasDiagnostic(fs[i].clauses[h].body)

\* C2: after processFile on a file in which a clause was instrumented, the
\* file has exactly one import of the diagnostic module, and it binds corona.
OneImportBoundToCorona ==
    \A i \in DOMAIN fs :
      (Processed(i) /\ Parseable(i) /\ Instrumented(i)) =>
        LET S == CoronaImportsOf(fs[i].body)
        IN /\ Cardinality(S) = 1
           /\ \A k \in S :
                \E n \in DOMAIN fs[i].body[k].specifiers :
                    fs[i].body[k].specifiers[n].local.name = "corona"

\* C3: processFile adds no import of the diagnostic module to a file that
\* has one (under any name), and exactly one to a file that has none and in
\* which at least one clause was instrumented, however many were.
NoDuplicateImport ==
    \A i \in DOMAIN fs :
      (Processed(i) /\ Parseable(i)) =>
        /\ CoronaImportsOf(before[i].body) # {} => ImportsAdded(i) = 0
        /\ (CoronaImportsOf(before[i].body) = {} /\ Instrumented(i)) => ImportsAdded(i) = 1
        /\ Len(fs[i].body) = Len(before[i].body) + ImportsAdded(i)

\* a file without the import had several clauses instrumented and got one import
NoDuplicateImportWitness ==
    \E i \in DOMAIN fs :
      /\ Processed(i)
      /\ CoronaImportsOf(before[i].body) = {}
      /\ Cardinality(GainedIn(i)) >= 3
      /\ ImportsAdded(i) = 1

\* C4: an inserted import sits right after the last import the file had (at
\* the top when it had none); the other top-level statements are all kept,
\* in their order.
ImportAfterLastImport ==
    \A i \in DOMAIN fs :
      (Processed(i) /\ Parseable(i)) =>
        IF Len(fs[i].body) = Len(before[i].body)
        THEN fs[i].body = before[i].body
        ELSE LET p == LastImportPos(before[i].body) + 1
             IN /\ Len(fs[i].body) = Len(before[i].body) + 1
                /\ fs[i].body[p] = ExpectedImport
                /\ Without(fs[i].body, p) = before[i].body

\* a file with two imports and further statements got the import as its third statement
ImportAfterLastImportWitness ==
    \E i \in DOMAIN fs :
      /\ Processed(i)
      /\ ImportsOf(before[i].body) = {1, 2}
      /\ Len(before[i].body) > 2
      /\ Len(fs[i].body) = Len(before[i].body) + 1
      /\ fs[i].body[3] = ExpectedImport

\* C5: a clause without a binding and without a diagnostic call ends up bound
\* to error, with the call on error as its first statement, in a file that
\* was marked modified.
MissingBindingInstrumented ==
    \A i \in DOMAIN fs :
      (Processed(i) /\ Parseable(i)) =>
        \A h \in DOMAIN before[i].clauses :
          (before[i].clauses[h].param.type = "null"
           /\ ~HasDiagnostic(before[i].clauses[h].body)) =>
            /\ fs[i].clauses[h].param = [type |-> "Identifier", name |-> "error"]
            /\ fs[i].clauses[h].body = <<ExpectedCall("error")>> \o before[i].clauses[h].body
            /\ returned[i].modified

\* C6: a clause that has a diagnostic call among its own statements keeps its
\* binding (an absent one too) and its statements, and does not mark the file.
LoggedClauseUnmodified ==
    \A i \in DOMAIN fs :
      (Processed(i) /\ Parseable(i)) =>
        /\ \A h \in DOMAIN before[i].clauses :
             HasDiagnostic(before[i].clauses[h].body) =>
               fs[i].clauses[h] = before[i].clauses[h]
        /\ (\A h \in DOMAIN before[i].clauses : HasDiagnostic(before[i].clauses[h].body))
             => ~returned[i].modified

\* C7: a clause bound to a pattern keeps its binding and its statements, in
\* the tree and in the file, and a file with no other clause is neither
\* marked, nor written, nor given an import.
IsPattern(param) == param.type \notin {"null", "Identifier"}

PatternClauseUntouched ==
    /\ InProcessFile =>
         \A h \in DOMAIN ast.clauses :
           IsPattern(fs[index].clauses[h].param) =>
             ast.clauses[h] = parse(fs[index]).clauses[h]
    /\ \A i \in DOMAIN fs :
         (Processed(i) /\ Parseable(i)) =>
           /\ \A h \in DOMAIN before[i].clauses :
                IsPattern(before[i].clauses[h].param) =>
                  fs[i].clauses[h] = before[i].clauses[h]
           /\ (before[i].clauses # <<>>
               /\ \A h \in DOMAIN before[i].clauses : IsPattern(before[i].clauses[h].param))
                => /\ ~returned[i].modified
                   /\ ~Written(i)
                   /\ fs[i] = before[i]

\* a rewritten file holds a pattern clause, and a file of pattern clauses was passed over
PatternClauseUntouchedWitness ==
    \E i \in DOMAIN fs :
      /\ Processed(i)
      /\ Written(i)
      /\ \E h \in DOMAIN before[i].clauses :
           /\ IsPattern(before[i].clauses[h].param)
           /\ \E k \in DOMAIN before[i].clauses[h].body :
                before[i].clauses[h].body[k].type = "TryStatement"

\* C8: every clause bound to an identifier e and without a diagnostic call
\* gets exactly the call corona.warn("SomethingWrong", {error: (e || {}).stack
\* || e}, "") in front of its statements, which follow unchanged; the file is
\* marked modified.  Nested clauses are instrumented each on its own.
WarnCallInsertedFirst ==
    \A i \in DOMAIN fs :
      (Processed(i) /\ Parseable(i)) =>
        \A h \in DOMAIN before[i].clauses :
          (before[i].clauses[h].param.type = "Identifier"
           /\ ~HasDiagnostic(before[i].clauses[h].body)) =>
            /\ fs[i].clauses[h].param = before[i].clauses[h].param
            /\ fs[i].clauses[h].body =
                 <<ExpectedCall(before[i].clauses[h].param.name)>> \o before[i].clauses[h].body
            /\ returned[i].modified
            /\ Written(i)

\* a clause and the clause nested in its body both got their call
WarnCallInsertedFirstWitness ==
    \E i \in DOMAIN fs :
      /\ Processed(i)
      /\ \E h \in DOMAIN before[i].clauses :
           \E k \in DOMAIN before[i].clauses[h].body :
             LET s == before[i].clauses[h].body[k]
             IN /\ s.type = "TryStatement"
                /\ s.handler # 0
                /\ Gained(i, h)
                /\ Gained(i, s.handler)
                /\ fs[i].clauses[h].body[1] = ExpectedCall("e")
                /\ fs[i].clauses[s.handler].body[1] = ExpectedCall("err")

\* C9: a file that does not parse is logged and left as it is, processFile
\* returns, and the files after it are processed: every file of the tree gets
\* its turn and a later file with a clause to instrument is rewritten.
BrokenFileSkipped ==
    /\ pc \in {"idle", "done"} => Len(returned) = index - 1
    /\ pc = "done" => Len(returned) = Len(fs)
    /\ \A i \in DOMAIN fs :
         Processed(i) =>
           /\ Len(returned) >= i /\ returned[i].file = i
           /\ ~Parseable(i) =>
                /\ fs[i] = before[i]
                /\ ~Written(i)
                /\ ~Updated(i)
                /\ \E k \in DOMAIN log :
                     log[k] = [line |-> "Error processing file", file |-> i]
           /\ (Parseable(i) /\ \E j \in 1..(i - 1) : ~Parseable(j)) =>
                ((\E h \in DOMAIN before[i].clauses :
                    /\ before[i].clauses[h].param.type = "Identifier"
                    /\ ~HasDiagnostic(before[i].clauses[h].body))
                 => (Written(i) /\ Updated(i) /\ Instrumented(i)))

\* the run is over, the first file did not parse and the second was rewritten
BrokenFileSkippedWitness ==
    /\ pc = "done"
    /\ Len(fs) >= 2
    /\ ~before[1].ok
    /\ Written(2)
    /\ fs[2] # before[2]

\* C10: modified is true at the end of the traversal iff some clause got a
\* call; the file is written and reported iff the flag is true; an import is
\* added only if it is true.  A file in which no clause got a call is not
\* written, even when a clause of the tree got the fallback binding.
ModifiedFlagGovernsWrite ==
    /\ pc \in {"import", "save"} =>
         (modified <=> \E h \in DOMAIN ast.clauses :
                          Len(ast.clauses[h].body) > Len(fs[index].clauses[h].body))
    /\ \A i \in DOMAIN fs :
         (Processed(i) /\ Parseable(i)) =>
           /\ returned[i].modified <=> Instrumented(i)
           /\ Written(i) <=> returned[i].modified
           /\ Updated(i) <=> returned[i].modified
           /\ ImportsAdded(i) > 0 => returned[i].modified
           /\ ~returned[i].modified => fs[i] = before[i]

\* the tree got a fallback binding the file did not have, and modified is false
ModifiedFlagGovernsWriteWitness ==
    /\ pc = "save"
    /\ ~modified
    /\ \E h \in DOMAIN ast.clauses :
         /\ fs[index].clauses[h].param.type = "null"
         /\ ast.clauses[h].param = [type |-> "Identifier", name |-> "error"]

====
